---- MODULE Spec2Model ----
(***************************************************************************)
(* Notification service: the ingest transaction (app/main.py), the durable *)
(* queue (app/queue.py), the SQLite store (app/database.py) and the        *)
(* worker's message handler (app/worker.py).                               *)
(***************************************************************************)
EXTENDS Integers, Sequences, FiniteSets, TLC

\* ------------------------------------------------------------------ bounds
MaxReq == 1        \* ingest requests (POST /notifications) in one run
MaxForeign == 1    \* payloads put on the queue by a publisher other than ingest
MaxSubs == 2       \* push endpoints that can be registered for the user

\* ------------------------------------------------------------------ domains
Channels == {"EMAIL", "SMS", "IN_APP", "PUSH_ANDROID"}
Providers == {"TWILIO", "AWS_SNS", "TEXTBEE"}
Statuses == {"PENDING", "SCHEDULED", "PROCESSING_STUB", "SENT", "FAILED"}
Fields == {"recipient_email", "subject", "recipient_phone", "user_id", "message_body"}

\* Instants: now = datetime.utcnow() taken by create_notification, which is also the
\* created_at of the row; NoSendAt stands for a request without send_at.
Now == 2
NoSendAt == 0
SendAts == {NoSendAt, Now - 1, Now, Now + 1}

ReqIds == 1..MaxReq
Ids == 0..MaxReq
Endpoints == 1..MaxSubs

\* CURRENT_TIMESTAMP when a status update runs: an instant after the ingest's now.
Later == Now + 1

NoRow == [channel |-> "-", status |-> "-", retry_count |-> 0, created_at |-> 0, updated_at |-> 0]
NoMsg == [form |-> "none", id |-> 0, channel |-> "-", sms_provider |-> "-",
          has |-> {}, status |-> "-", send_at |-> NoSendAt, typed |-> "-"]

\* Fields a request of the channel must carry (NotificationRequest validators).
Required(channel) ==
    CASE channel = "EMAIL" -> {"recipient_email", "subject", "message_body"}
      [] channel = "SMS" -> {"recipient_phone", "message_body"}
      [] channel = "IN_APP" -> {"user_id", "message_body"}
      [] channel = "PUSH_ANDROID" -> {"user_id", "message_body"}
      [] OTHER -> {"message_body"}

\* NotificationMessage without the per-channel validators.
ModelValidChannelOnly(m) == m.channel \in Channels /\ "message_body" \in m.has

\* The validators of NotificationRequest, run again by NotificationMessage(**data).
ModelValid(m) ==
    /\ m.channel \in Channels
    /\ "message_body" \in m.has
    /\ (m.channel = "EMAIL" => {"recipient_email", "subject"} \subseteq m.has)
    /\ (m.channel = "SMS" => "recipient_phone" \in m.has /\ m.sms_provider \in Providers)
    /\ (m.channel \in {"IN_APP", "PUSH_ANDROID"} => "user_id" \in m.has)

VARIABLES
    settings,   \* credentials and configuration present in the environment
    rows,       \* committed rows of table notifications, by id
    subs,       \* committed rows of android_sns_push_subscriptions for the user: endpoint -> is_enabled
    lock,       \* holder of the SQLite write lock: "free", "worker" or "req"
    req,        \* per request of create_notification: its position and locals
    queue,      \* ready messages of the durable queue, head first
    foreign,    \* number of payloads published by others so far
    w,          \* the worker: position in process_notification_message and its locals
    pubCount,   \* per id, number of messages ingest published successfully
    ackedSent,  \* ids whose message was positively acknowledged in a handling whose send succeeded
    consumer,   \* consume_messages: its position, its open connections and channels, its deliveries
    store       \* android_sns_push_subscriptions, the write transaction in progress, the callers' connections

vars == <<settings, rows, subs, lock, req, queue, foreign, w, pubCount, ackedSent, consumer, store>>

\* ------------------------------------------------------------------ store
\* CHECK (channel IN ('EMAIL', 'SMS', 'IN_APP')) of CREATE TABLE notifications.
ChannelCheck(channel) == channel \in {"EMAIL", "SMS", "IN_APP"}

\* The status test with >= in place of >.
InitialStatusNotStrict(send_at) ==
    IF send_at # NoSendAt /\ send_at >= Now THEN "SCHEDULED" ELSE "PENDING"

\* Status computed by create_notification: send_at and send_at > now.
InitialStatus(send_at) ==
    IF send_at # NoSendAt /\ send_at > Now THEN "SCHEDULED" ELSE "PENDING"

\* insert_notification: the row it writes, its status re-derived from
\* send_at and send_at > created_at, where created_at is the request's now.
InsertedRow(channel, status, send_at) ==
    [channel |-> channel,
     status |-> IF send_at # NoSendAt /\ send_at > Now THEN "SCHEDULED" ELSE status,
     retry_count |-> 0, created_at |-> Now, updated_at |-> Now]

\* insert_notification: "ok", or the sqlite3 error the INSERT raises.
insert_notification(id, channel) ==
    IF rows[id] # NoRow \/ ~ChannelCheck(channel) THEN "IntegrityError" ELSE "ok"

\* An update that reports a row whether or not the id has one.
UpdateAlwaysFound(id) == TRUE

\* update_notification_status: cursor.rowcount > 0.
update_notification_status(id) == rows[id] # NoRow

\* Renderings of a UUID or datetime value that pydantic parses back into the field:
\* the text str() gives, and the ISO form.
Parsed == {"str", "iso"}

\* The record serialised with default=repr.
MessageOfRepr(id, r) ==
    [form |-> "record", id |-> id, channel |-> r.channel, sms_provider |-> r.sms_provider,
     has |-> Required(r.channel), status |-> r.status, send_at |-> r.send_at,
     typed |-> "repr"]

\* The record create_notification serialises onto the queue: the dict of the
\* NotificationDB, which carries the fields the request's validators required, its
\* id and its timestamps rendered by json.dumps(..., default=str).
MessageOf(id, r) ==
    [form |-> "record", id |-> id, channel |-> r.channel, sms_provider |-> r.sms_provider,
     has |-> Required(r.channel), status |-> r.status, send_at |-> r.send_at,
     typed |-> "str"]

\* The except clauses without the one for sqlite3.IntegrityError.
ExceptionResponseNoConflict(exc) == IF exc = "AMQPError" THEN "503" ELSE "500"

\* The except clauses of create_notification: the HTTP status of an exception.
ExceptionResponse(exc) ==
    CASE exc = "IntegrityError" -> "409"
      [] exc = "AMQPError" -> "503"
      [] OTHER -> "500"

\* The worker before a delivery; the locals of process_notification_message.
WIdle ==
    [pc |-> "idle", msg |-> NoMsg, chan |-> "open", rowBefore |-> NoRow, decoded |-> "-",
     final_status |-> "-", sent |-> FALSE, results |-> <<>>, calls |-> 0, touched |-> FALSE,
     subsRead |-> {}, updated |-> FALSE, wrote |-> "-", issued |-> <<>>, outcome |-> "-",
     exit |-> "-", escaped |-> FALSE, raised |-> FALSE, conns |-> 0]

NoReq == [pc |-> "new", channel |-> "-", sms_provider |-> "-", send_at |-> NoSendAt,
          status |-> "-", response |-> "-", failed_at |-> "-", conns |-> 0]

ValidRequests ==
    {[channel |-> c, sms_provider |-> p, send_at |-> s] :
        c \in Channels, p \in Providers \cup {"-"}, s \in SendAts}

RequestOK(i) == (i.channel = "SMS") <=> (i.sms_provider \in Providers)

\* consume_messages when it is called: at the top of its loop, nothing opened yet.
\* unacked is the broker's list of deliveries to this consumer that are not settled,
\* buffer the deliveries the queue iterator holds for the loop (the first stale ones
\* were made on a connection since lost), inhand the delivery the callback is running.
ConsumerStart ==
    [pc |-> "start", conns |-> 0, chans |-> 0, link |-> "none", prefetch |-> 0,
     unacked |-> <<>>, buffer |-> <<>>, stale |-> 0, inhand |-> NoMsg, live |-> FALSE,
     owed |-> {}, seen |-> {}, done |-> {}, faults |-> 0, cancelled |-> FALSE]

MaxSess == 2

Sessions == 1..MaxSess
Users == {"u1"}
Tokens == {"t1", "t2"}

\* A function that leaves its store connections open when it returns or raises.
ConnectionsLeftOpen(n) == n

\* get_db_connection: the finally clause closes the connection on every way out of
\* the async with block, so a function that held n of them leaves none.
ConnectionsLeft(n) == 0

\* No row of android_sns_push_subscriptions.
NoSub ==
    [id |-> 0, user_id |-> "-", fcm_token |-> "-", endpoint_arn |-> 0, is_enabled |-> FALSE,
     created_at |-> 0, updated_at |-> 0]

\* A caller of the store functions before get_db_connection.
SessIdle ==
    [pc |-> "idle", op |-> "-", user_id |-> "-", fcm_token |-> "-", endpoint_arn |-> 0,
     now |-> 0, existing |-> NoSub, returned |-> NoSub, result |-> FALSE, error |-> "-",
     discarded |-> FALSE]

\* The database after create_tables: table holds the committed subscription rows, pend
\* the two tables as the connection that holds the write transaction sees them, clock
\* the time.
StoreStart ==
    [table |-> {}, pend |-> [table |-> {}, rows |-> [i \in Ids |-> NoRow]], writer |-> 0,
     clock |-> 0, sess |-> [s \in Sessions |-> SessIdle]]

Init ==
    /\ settings \in [AWS : BOOLEAN, TWILIO : BOOLEAN, TEXTBEE : BOOLEAN, ARN : BOOLEAN]
    /\ rows = [i \in Ids |-> NoRow]
    /\ subs = [e \in {} |-> TRUE]
    /\ lock = "free"
    /\ req = [p \in ReqIds |-> NoReq]
    /\ queue = <<>>
    /\ foreign = 0
    /\ w = WIdle
    /\ pubCount = [i \in Ids |-> 0]
    /\ ackedSent = {}
    /\ consumer = ConsumerStart
    /\ store = StoreStart

\* ------------------------------------------------------------------ ingest
FirstNew(p) == req[p].pc = "new" /\ (IF p = 1 THEN TRUE ELSE req[p - 1].pc # "new")

Finished(p, r, response, failed_at) ==
    [r EXCEPT !.pc = "done", !.response = response, !.failed_at = failed_at,
              !.conns = ConnectionsLeft(r.conns)]

\* create_notification up to and including insert_notification: the request computes
\* its status, opens a connection and executes the INSERT, which starts a write
\* transaction; an IntegrityError is reported through the except clauses.
ReqInsert(p) ==
    /\ FirstNew(p)
    /\ lock = "free"
    /\ \E i \in ValidRequests :
        /\ RequestOK(i)
        /\ LET r == [NoReq EXCEPT !.channel = i.channel, !.sms_provider = i.sms_provider,
                                  !.send_at = i.send_at, !.status = InitialStatus(i.send_at),
                                  !.conns = 1]
               res == insert_notification(p, i.channel)
           IN IF res = "ok"
              THEN /\ req' = [req EXCEPT ![p] = [r EXCEPT !.pc = "inserted"]]
                   /\ lock' = "req"
              ELSE /\ req' = [req EXCEPT ![p] = Finished(p, r, ExceptionResponse(res), "insert")]
                   /\ lock' = lock
    /\ UNCHANGED <<settings, rows, subs, queue, foreign, w, pubCount, ackedSent, consumer, store>>

\* The connection or the INSERT raises a sqlite3 error that is no IntegrityError
\* (the write lock is held by another transaction beyond the timeout, I/O error).
ReqInsertError(p) ==
    /\ FirstNew(p)
    /\ \E i \in ValidRequests :
        /\ RequestOK(i)
        /\ LET r == [NoReq EXCEPT !.channel = i.channel, !.sms_provider = i.sms_provider,
                                  !.send_at = i.send_at, !.status = InitialStatus(i.send_at)]
           IN req' = [req EXCEPT ![p] =
                        Finished(p, r, ExceptionResponse("OperationalError"), "insert_other")]
    /\ UNCHANGED <<settings, rows, subs, lock, queue, foreign, w, pubCount, ackedSent, consumer, store>>

\* The request's send_at carries a UTC offset: comparing it with the naive now
\* raises TypeError before the try block is entered, so no status is computed,
\* nothing is inserted or published, and the framework answers 500.
ReqStatusError(p) ==
    /\ FirstNew(p)
    /\ \E i \in ValidRequests :
        /\ RequestOK(i)
        /\ i.send_at # NoSendAt
        /\ LET r == [NoReq EXCEPT !.channel = i.channel, !.sms_provider = i.sms_provider,
                                  !.send_at = i.send_at]
           IN req' = [req EXCEPT ![p] = Finished(p, r, "500", "status")]
    /\ UNCHANGED <<settings, rows, subs, lock, queue, foreign, w, pubCount, ackedSent, consumer, store>>

\* publish_message succeeds: the serialised record is appended to the durable queue.
ReqPublish(p) ==
    /\ req[p].pc = "inserted"
    /\ queue' = Append(queue, MessageOf(p, req[p]))
    /\ pubCount' = [pubCount EXCEPT ![p] = @ + 1]
    /\ req' = [req EXCEPT ![p].pc = "published"]
    /\ UNCHANGED <<settings, rows, subs, lock, foreign, w, ackedSent, consumer, store>>

\* A publish failure handled without the rollback: the insert is committed.
RowsAfterPublishFailureCommitted(p) ==
    [rows EXCEPT ![p] = InsertedRow(req[p].channel, req[p].status, req[p].send_at)]

\* What the store holds after the handler of a publish failure: db_conn.rollback().
RowsAfterPublishFailure(p) == rows

\* publish_message raises: the inner handler rolls back and raises HTTPException(503)
\* inside the outer try, whose except clauses then decide the response.
ReqPublishFail(p) ==
    /\ req[p].pc = "inserted"
    /\ rows' = RowsAfterPublishFailure(p)
    /\ lock' = "free"
    /\ req' = [req EXCEPT ![p] =
                 Finished(p, req[p], ExceptionResponse("HTTPException"), "publish")]
    /\ UNCHANGED <<settings, subs, queue, foreign, w, pubCount, ackedSent, consumer, store>>

\* db_conn.commit() succeeds: the row becomes visible, the write lock is released, 202.
ReqCommit(p) ==
    /\ req[p].pc = "published"
    /\ rows' = [rows EXCEPT ![p] = InsertedRow(req[p].channel, req[p].status, req[p].send_at)]
    /\ lock' = "free"
    /\ req' = [req EXCEPT ![p] = Finished(p, req[p], "202", "none")]
    /\ UNCHANGED <<settings, subs, queue, foreign, w, pubCount, ackedSent, consumer, store>>

\* db_conn.commit() raises: the connection is closed without a commit.
ReqCommitFail(p) ==
    /\ req[p].pc = "published"
    /\ lock' = "free"
    /\ req' = [req EXCEPT ![p] =
                 Finished(p, req[p], ExceptionResponse("OperationalError"), "commit")]
    /\ UNCHANGED <<settings, rows, subs, queue, foreign, w, pubCount, ackedSent, consumer, store>>

\* ------------------------------------------------------------------ others
Record(channel, provider, has) ==
    [form |-> "record", id |-> 0, channel |-> channel, sms_provider |-> provider,
     has |-> has, status |-> "PENDING", send_at |-> NoSendAt, typed |-> "str"]

\* Payloads a publisher other than create_notification can put on the queue:
\* undecodable bytes, text that is no JSON, JSON that is no object, and records
\* that carry all, or all but one, of the fields their channel requires; an SMS
\* record names one of the providers, none, or one SmsProviderEnum does not list.
ForeignPayloads ==
    {[NoMsg EXCEPT !.form = f] : f \in {"undecodable", "badjson", "nonobject"}}
    \cup {Record(c, "-", Required(c)) : c \in (Channels \ {"SMS"}) \cup {"FAX"}}
    \cup {Record("SMS", p, Required("SMS")) : p \in Providers \cup {"-", "UNLISTED"}}
    \cup {Record(c, IF c = "SMS" THEN "TWILIO" ELSE "-", Required(c) \ {f}) :
            c \in Channels, f \in Fields}

ForeignPublish ==
    /\ foreign < MaxForeign
    /\ foreign' = foreign + 1
    /\ \E m \in ForeignPayloads : queue' = Append(queue, m)
    /\ UNCHANGED <<settings, rows, subs, lock, req, w, pubCount, ackedSent, consumer, store>>

\* register_android_device_for_sns_push: add_sns_push_subscription and commit.
RegisterSub(e) ==
    /\ lock = "free"
    /\ (IF e \in DOMAIN subs THEN ~subs[e] ELSE TRUE)
    /\ subs' = [x \in DOMAIN subs \cup {e} |-> IF x = e THEN TRUE ELSE subs[x]]
    /\ UNCHANGED <<settings, rows, lock, req, queue, foreign, w, pubCount, ackedSent, consumer, store>>

\* unregister_android_device_from_sns_push: delete by endpoint and commit.
UnregisterSub(e) ==
    /\ lock = "free"
    /\ e \in DOMAIN subs
    /\ subs' = [x \in DOMAIN subs \ {e} |-> subs[x]]
    /\ UNCHANGED <<settings, rows, lock, req, queue, foreign, w, pubCount, ackedSent, consumer, store>>

\* ------------------------------------------------------------------ worker
\* The outer except clause discarding instead of requeueing.
IssuedCallsUnexpectedDiscarded(exit, open) ==
    IF exit = "ack" THEN <<"ack">>
    ELSE IF exit = "store_error" THEN <<"nack_requeue">> ELSE <<"nack_discard">>

\* The validation except clause without its return: the handler goes on after the nack.
IssuedCallsNoReturn(exit, open) ==
    CASE exit = "ack" -> <<"ack">>
      [] exit = "store_error" -> <<"nack_requeue">>
      [] exit = "reject_model" -> <<"nack_discard", "ack">>
      [] exit = "reject_json" -> <<"nack_discard">>
      [] OTHER -> <<"nack_requeue">>

\* message.ack / message.nack: the calls the handler issues on each of its exits,
\* the later ones from the except clauses an earlier failing call raises into.
IssuedCalls(exit, open) ==
    CASE exit = "ack" ->
            IF open THEN <<"ack">> ELSE <<"ack", "nack_requeue", "nack_requeue">>
      [] exit = "store_error" ->
            IF open THEN <<"nack_requeue">> ELSE <<"nack_requeue", "nack_requeue">>
      [] exit = "reject_model" ->
            IF open THEN <<"nack_discard">> ELSE <<"nack_discard", "nack_requeue">>
      [] exit = "reject_json" -> <<"nack_discard">>
      [] OTHER -> <<"nack_requeue">>

\* A catch-all clause that only logs: the delivery it handles stays unsettled.
OutcomeLoggedOnly(exit, open) ==
    IF ~open THEN "unsettled"
    ELSE CASE exit = "ack" -> "acked"
           [] exit \in {"reject_model", "reject_json"} -> "discarded"
           [] exit = "outer_error" -> "unsettled"
           [] OTHER -> "requeued"

\* What became of the delivery: the first call settles it when the channel is open;
\* on a lost channel every call raises and the delivery stays unsettled.
Outcome(exit, open) ==
    IF ~open THEN "unsettled"
    ELSE CASE exit = "ack" -> "acked"
           [] exit \in {"reject_model", "reject_json"} -> "discarded"
           [] OTHER -> "requeued"

\* The exit of the decode and validate step of process_notification_message.
Decode(m) ==
    CASE m.form = "undecodable" -> "outer_error"
      [] m.form = "badjson" -> "reject_json"
      [] m.form = "nonobject" -> "reject_model"
      [] OTHER -> IF ModelValid(m) /\ m.typed \in Parsed THEN "ok" ELSE "reject_model"

\* Whether an exception leaves process_notification_message: on a lost channel the
\* nack of the last except clause raises inside that clause, which nothing catches
\* before consume_messages; with the channel open every raise ends in a nack.
Escapes(exit, open) == ~open

Finish(exit, wv) ==
    [wv EXCEPT !.pc = "idle",
               !.exit = exit,
               !.issued = IssuedCalls(exit, wv.chan = "open"),
               !.outcome = Outcome(exit, wv.chan = "open"),
               !.escaped = Escapes(exit, wv.chan = "open"),
               !.conns = ConnectionsLeft(wv.conns)]

\* nack(requeue=True) on an open channel puts the message back at the head.
QueueAfter(exit, wv) ==
    IF Outcome(exit, wv.chan = "open") = "requeued" THEN <<wv.msg>> \o queue ELSE queue

\* final_status set to SENT whatever the transport answered.
SendStatusAlwaysSent(sent) == "SENT"

\* EMAIL and SMS: final_status from sent_successfully.
SendStatus(sent) == IF sent THEN "SENT" ELSE "FAILED"

\* push_results reduced with any() instead of all().
PushStatusAny(results) ==
    IF \E i \in 1..Len(results) : results[i] THEN "SENT" ELSE "FAILED"

\* PUSH_ANDROID: final_status from push_results.
PushStatus(results) ==
    IF Len(results) = 0 THEN "FAILED"
    ELSE IF \A i \in 1..Len(results) : results[i] THEN "SENT" ELSE "FAILED"

\* get_sns_push_subscriptions_by_user_id: the rows with is_enabled = TRUE.
EnabledSubs == {e \in DOMAIN subs : subs[e]}

\* send_sms_via_provider: whether the provider's credentials are configured.
ProviderConfigured(provider) ==
    CASE provider = "TWILIO" -> settings.TWILIO
      [] provider = "AWS_SNS" -> settings.AWS
      [] provider = "TEXTBEE" -> settings.TEXTBEE
      [] OTHER -> FALSE

Dispatched(status, sent, results, calls, touched) ==
    [final_status |-> status, sent |-> sent, results |-> results, calls |-> calls,
     touched |-> touched, subsRead |-> IF touched THEN EnabledSubs ELSE {},
     raised |-> FALSE]

\* A provider that calls its transport whatever its configuration.
TransportAlwaysCalled(configured) ==
    {[ok |-> b, calls |-> 1, raised |-> FALSE] : b \in BOOLEAN}

\* A provider that tries its transport a second time.
TransportRetried(configured) ==
    IF configured
    THEN {[ok |-> b, calls |-> 2, raised |-> FALSE] : b \in BOOLEAN}
    ELSE {[ok |-> FALSE, calls |-> 0, raised |-> FALSE]}

\* A provider's send: False without a network call when its configuration is
\* missing, otherwise the transport's answer; a transport call that raises is
\* caught by the provider's own except clauses, which return False.
Transport(configured) ==
    IF configured
    THEN {[ok |-> b, calls |-> 1, raised |-> FALSE] : b \in BOOLEAN}
         \cup {[ok |-> FALSE, calls |-> 1, raised |-> TRUE]}
    ELSE {[ok |-> FALSE, calls |-> 0, raised |-> FALSE]}

\* The loop over the subscriptions left at the first send that returns False.
PushAnswersStopAtFailure(n) ==
    {r \in UNION {[1..k -> BOOLEAN] : k \in 0..n} :
        /\ \A i \in 1..(Len(r) - 1) : r[i]
        /\ Len(r) = n \/ (Len(r) > 0 /\ ~r[Len(r)])}

\* push_results of the PUSH_ANDROID branch over n subscriptions: one answer of
\* send_push_notification_async per subscription, in order; without AWS credentials
\* every send returns False.
PushAnswers(n) ==
    IF settings.AWS THEN [1..n -> BOOLEAN] ELSE {[i \in 1..n |-> FALSE]}

\* The stub worker: every channel is marked PROCESSING_STUB and nothing is sent.
DispatchOutcomesStubOnly(m) == {Dispatched("PROCESSING_STUB", FALSE, <<>>, 0, FALSE)}

\* A worker that hands every message back as PENDING, nothing sent.
DispatchOutcomesPending(m) == {Dispatched("PENDING", FALSE, <<>>, 0, FALSE)}

\* A worker that holds back a SCHEDULED message: nothing sent, the stub status.
DispatchOutcomesHoldScheduled(m) ==
    IF m.status = "SCHEDULED"
    THEN {Dispatched("PROCESSING_STUB", FALSE, <<>>, 0, FALSE)}
    ELSE {Dispatched(SendStatus(b), b, <<>>, 1, FALSE) : b \in BOOLEAN}

\* The dispatch step of process_notification_message: every result it can compute
\* for a validated message, over the answers of the transports.
DispatchOutcomes(m) ==
    CASE m.channel = "EMAIL" ->
            IF "recipient_email" \notin m.has \/ "subject" \notin m.has
            THEN {Dispatched("FAILED", FALSE, <<>>, 0, FALSE)}
            ELSE {[Dispatched(SendStatus(t.ok), t.ok, <<>>, t.calls, FALSE)
                       EXCEPT !.raised = t.raised] :
                    t \in Transport(settings.AWS /\ "message_body" \in m.has)}
      [] m.channel = "SMS" ->
            {[Dispatched(SendStatus(t.ok), t.ok, <<>>, t.calls, FALSE)
                EXCEPT !.raised = t.raised] :
                t \in Transport(/\ m.sms_provider \in Providers
                                /\ "recipient_phone" \in m.has
                                /\ "message_body" \in m.has
                                /\ ProviderConfigured(m.sms_provider))}
      [] m.channel = "PUSH_ANDROID" ->
            IF "user_id" \notin m.has \/ ~settings.ARN
            THEN {Dispatched("FAILED", FALSE, <<>>, 0, FALSE)}
            ELSE LET n == Cardinality(EnabledSubs)
                 IN {Dispatched(PushStatus(r), FALSE, r,
                                IF settings.AWS THEN Len(r) ELSE 0, TRUE) :
                        r \in PushAnswers(n)}
      [] m.channel = "IN_APP" -> {Dispatched("PROCESSING_STUB", FALSE, <<>>, 0, FALSE)}
      [] OTHER -> {Dispatched("FAILED", FALSE, <<>>, 0, FALSE)}

\* consume_messages: with prefetch 1 the next ready message is handed to the
\* handler once the previous handling has returned.
W_Deliver ==
    /\ w.pc = "idle"
    /\ queue # <<>>
    /\ w' = [WIdle EXCEPT !.pc = "received", !.msg = Head(queue),
                          !.rowBefore = rows[Head(queue).id]]
    /\ queue' = Tail(queue)
    /\ UNCHANGED <<settings, rows, subs, lock, req, foreign, pubCount, ackedSent, consumer, store>>

\* Decode and validate; a payload that fails leaves through its except clause.
W_Reject ==
    /\ w.pc = "received"
    /\ Decode(w.msg) # "ok"
    /\ w' = Finish(Decode(w.msg), [w EXCEPT !.decoded = Decode(w.msg)])
    /\ queue' = QueueAfter(Decode(w.msg), w)
    /\ UNCHANGED <<settings, rows, subs, lock, req, foreign, pubCount, ackedSent, consumer, store>>

\* Decode, validate and dispatch by channel.
W_Dispatch ==
    /\ w.pc = "received"
    /\ Decode(w.msg) = "ok"
    /\ \E d \in DispatchOutcomes(w.msg) :
        w' = [w EXCEPT !.pc = "persist", !.decoded = "ok", !.final_status = d.final_status,
                       !.sent = d.sent, !.results = d.results, !.calls = d.calls,
                       !.touched = d.touched, !.subsRead = d.subsRead,
                       !.raised = d.raised]
    /\ UNCHANGED <<settings, rows, subs, lock, req, queue, foreign, pubCount, ackedSent, consumer, store>>

\* The subscription read of the PUSH_ANDROID branch raises: outer except clause.
W_DispatchError ==
    /\ w.pc = "received"
    /\ Decode(w.msg) = "ok"
    /\ w.msg.channel = "PUSH_ANDROID" /\ "user_id" \in w.msg.has /\ settings.ARN
    /\ w' = Finish("outer_error", [w EXCEPT !.decoded = "ok", !.touched = TRUE])
    /\ queue' = QueueAfter("outer_error", w)
    /\ UNCHANGED <<settings, rows, subs, lock, req, foreign, pubCount, ackedSent, consumer, store>>

\* PUSH_ANDROID: send_push_notification_async builds its SNS client before its try
\* block; when boto3.client raises there (a region name botocore rejects), the
\* exception leaves the provider and reaches the handler's outer except clause.
W_TransportRaise ==
    /\ w.pc = "received"
    /\ Decode(w.msg) = "ok"
    /\ w.msg.channel = "PUSH_ANDROID" /\ "user_id" \in w.msg.has /\ settings.ARN
    /\ settings.AWS /\ EnabledSubs # {}
    /\ w' = Finish("outer_error", [w EXCEPT !.decoded = "ok", !.touched = TRUE,
                                             !.subsRead = EnabledSubs, !.raised = TRUE])
    /\ queue' = QueueAfter("outer_error", w)
    /\ UNCHANGED <<settings, rows, subs, lock, req, foreign, pubCount, ackedSent, consumer, store>>

\* A store error handled like a malformed payload: nack(requeue=False).
StoreErrorExitDiscard(e) == "reject_model"

\* A store error swallowed: the handler goes on to message.ack().
StoreErrorExitAck(e) == "ack"

\* The except clause a store error of the persist step is handled by: a failure to
\* open the connection reaches the outer clause, an error of the UPDATE or of the
\* commit the inner ones; each of them nacks with requeue.
StoreErrorExit(e) == IF e = "connect_error" THEN "outer_error" ELSE "store_error"

\* update_notification_status on a fresh connection: the UPDATE takes the write lock.
W_Update ==
    /\ w.pc = "persist"
    /\ lock = "free"
    /\ lock' = "worker"
    /\ w' = [w EXCEPT !.pc = "updated", !.touched = TRUE, !.conns = 1,
                      !.updated = update_notification_status(w.msg.id)]
    /\ UNCHANGED <<settings, rows, subs, req, queue, foreign, pubCount, ackedSent, consumer, store>>

\* The connection cannot be opened (outer except clause) or the UPDATE raises a
\* sqlite3 error such as a lock timeout (inner except clause: rollback, nack).
W_UpdateError ==
    /\ w.pc = "persist"
    /\ \E e \in {"connect_error", "update_error"} :
        /\ w' = Finish(StoreErrorExit(e),
                        [w EXCEPT !.wrote = e, !.touched = TRUE,
                                  !.conns = IF e = "update_error" THEN 1 ELSE 0])
        /\ queue' = QueueAfter(StoreErrorExit(e), w)
    /\ UNCHANGED <<settings, rows, subs, lock, req, foreign, pubCount, ackedSent, consumer, store>>

\* The status update never reaches the committed rows.
RowsAfterUpdateLost(wv) == rows

\* The UPDATE of update_notification_status called with a retry_count.
RowsAfterUpdateCountingRetries(wv) ==
    IF wv.updated
    THEN [rows EXCEPT ![wv.msg.id].status = wv.final_status,
                      ![wv.msg.id].retry_count = 1,
                      ![wv.msg.id].updated_at = Later]
    ELSE rows

\* The rows after db_conn.commit() of the status update: UPDATE notifications SET
\* status = ?, updated_at = CURRENT_TIMESTAMP WHERE id = ?, and the trigger's updated_at.
RowsAfterUpdate(wv) ==
    IF wv.updated
    THEN [rows EXCEPT ![wv.msg.id].status = wv.final_status,
                      ![wv.msg.id].updated_at = Later]
    ELSE rows

W_Commit ==
    /\ w.pc = "updated"
    /\ rows' = RowsAfterUpdate(w)
    /\ lock' = "free"
    /\ w' = [w EXCEPT !.pc = "committed", !.wrote = "ok"]
    /\ UNCHANGED <<settings, subs, req, queue, foreign, pubCount, ackedSent, consumer, store>>

\* db_conn.commit() raises: rollback and nack(requeue=True).
W_CommitError ==
    /\ w.pc = "updated"
    /\ lock' = "free"
    /\ w' = Finish(StoreErrorExit("commit_error"), [w EXCEPT !.wrote = "commit_error"])
    /\ queue' = QueueAfter(StoreErrorExit("commit_error"), w)
    /\ UNCHANGED <<settings, rows, subs, req, foreign, pubCount, ackedSent, consumer, store>>

\* The exit the handler takes once the status write has committed.
ExitAfterCommit == "ack"

\* message.ack() after the commit.
W_Ack ==
    /\ w.pc = "committed"
    /\ w' = Finish(ExitAfterCommit, w)
    /\ queue' = QueueAfter(ExitAfterCommit, w)
    /\ ackedSent' = IF w.sent /\ Outcome(ExitAfterCommit, w.chan = "open") = "acked"
                    THEN ackedSent \cup {w.msg.id} ELSE ackedSent
    /\ UNCHANGED <<settings, rows, subs, lock, req, foreign, pubCount, consumer, store>>

\* The consumer's channel is lost during a handling: the broker puts the unsettled
\* delivery back at the head of the queue, and the handler's later ack or nack raises.
W_ChannelLost ==
    /\ w.pc # "idle"
    /\ w.chan = "open"
    /\ w' = [w EXCEPT !.chan = "lost"]
    /\ queue' = <<w.msg>> \o queue
    /\ UNCHANGED <<settings, rows, subs, lock, req, foreign, pubCount, ackedSent, consumer, store>>

\* The service as deployed: create_notification is the only publisher.
Next ==
    \/ \E p \in ReqIds : ReqInsert(p)
    \/ \E p \in ReqIds : ReqInsertError(p)
    \/ \E p \in ReqIds : ReqStatusError(p)
    \/ \E p \in ReqIds : ReqPublish(p)
    \/ \E p \in ReqIds : ReqPublishFail(p)
    \/ \E p \in ReqIds : ReqCommit(p)
    \/ \E p \in ReqIds : ReqCommitFail(p)
    \/ W_Deliver
    \/ W_Dispatch
    \/ W_Update
    \/ W_UpdateError
    \/ W_Commit
    \/ W_CommitError
    \/ W_Ack
    \/ W_ChannelLost

\* SNS_PLATFORM_APPLICATION_ARN_ANDROID is read by the PUSH_ANDROID branch only,
\* which no ingested message reaches: it is taken as configured here.
SpecInit == Init /\ settings.ARN

Spec == SpecInit /\ [][Next]_vars

\* The handler under every payload the queue can hold: any publisher, the push
\* subscription registry, and the worker.
HandlerNext ==
    \/ ForeignPublish
    \/ \E e \in Endpoints : RegisterSub(e)
    \/ \E e \in Endpoints : UnregisterSub(e)
    \/ W_Deliver
    \/ W_Reject
    \/ W_Dispatch
    \/ W_DispatchError
    \/ W_TransportRaise
    \/ W_Update
    \/ W_UpdateError
    \/ W_Commit
    \/ W_CommitError
    \/ W_Ack
    \/ W_ChannelLost

HandlerSpec == Init /\ [][HandlerNext]_vars

\* ------------------------------------------------------------------ consumer
MaxBacklog == 2
MaxFaults == 2
MaxStale == 1

\* A well-formed message, the k-th a publisher has left on the durable queue.
BacklogMsg(k) == [Record("IN_APP", "-", Fields) EXCEPT !.id = k]

BacklogPublish ==
    /\ foreign < MaxBacklog
    /\ foreign' = foreign + 1
    /\ queue' = Append(queue, BacklogMsg(foreign + 1))
    /\ UNCHANGED <<settings, rows, subs, lock, req, w, pubCount, ackedSent, consumer, store>>

IdsOf(q) == {q[i].id : i \in 1..Len(q)}

\* The exits of process_notification_message.
Exits == {"ack", "store_error", "reject_model", "reject_json", "outer_error"}

\* The channel of the attempt is left open when the attempt is left.
LeaveAttemptChannelLeft(c) ==
    [c EXCEPT !.conns = IF c.pc \in {"connected", "channel", "consuming", "handling"}
                        THEN c.conns - 1 ELSE c.conns,
              !.link = "none", !.prefetch = 0, !.unacked = <<>>, !.buffer = <<>>,
              !.stale = 0, !.inhand = NoMsg, !.live = FALSE]

\* Leaving the two async with blocks of an attempt, by an exception, a cancellation or
\* the end of the loop: the finally clauses of get_rabbitmq_channel and
\* get_rabbitmq_connection close the channel and the connection the attempt opened.
LeaveAttempt(c) ==
    [c EXCEPT !.chans = IF c.pc \in {"channel", "consuming", "handling"}
                        THEN c.chans - 1 ELSE c.chans,
              !.conns = IF c.pc \in {"connected", "channel", "consuming", "handling"}
                        THEN c.conns - 1 ELSE c.conns,
              !.link = "none", !.prefetch = 0, !.unacked = <<>>, !.buffer = <<>>,
              !.stale = 0, !.inhand = NoMsg, !.live = FALSE]

\* An exception other than a cancellation ends the loop.
AfterErrorReturns(c) == [c EXCEPT !.pc = "returned"]

\* except AMQPConnectionError and except Exception of consume_messages: log, then
\* asyncio.sleep(10) before the next turn of while True.
AfterError(c) == [c EXCEPT !.pc = "sleeping"]

\* The broker sends whatever is ready, whatever is unsettled.
BrokerMayDeliverNoLimit(c) == c.link = "up" /\ c.pc \in {"consuming", "handling"}

\* basic.qos: the broker sends a consumer no delivery while prefetch_count deliveries
\* to it are unsettled.
BrokerMayDeliver(c) ==
    /\ c.link = "up"
    /\ c.pc \in {"consuming", "handling"}
    /\ Len(c.unacked) < c.prefetch

\* get_rabbitmq_connection: connect_robust succeeds.
C_Connect ==
    /\ consumer.pc = "start"
    /\ consumer' = [consumer EXCEPT !.pc = "connected", !.conns = @ + 1, !.link = "up"]
    /\ UNCHANGED <<settings, rows, subs, lock, req, queue, foreign, w, pubCount, ackedSent, store>>

\* connect_robust raises: nothing was opened, the loop sleeps.
C_ConnectFail ==
    /\ consumer.pc = "start"
    /\ consumer.faults < MaxFaults
    /\ consumer' = AfterError([LeaveAttempt(consumer) EXCEPT !.faults = @ + 1])
    /\ UNCHANGED <<settings, rows, subs, lock, req, queue, foreign, w, pubCount, ackedSent, store>>

\* get_rabbitmq_channel: connection.channel().
C_OpenChannel ==
    /\ consumer.pc = "connected"
    /\ consumer.link = "up"
    /\ consumer' = [consumer EXCEPT !.pc = "channel", !.chans = @ + 1]
    /\ UNCHANGED <<settings, rows, subs, lock, req, queue, foreign, w, pubCount, ackedSent, store>>

\* set_qos(prefetch_count=1), declare_queue(durable=True) and queue.iterator(): the
\* queue is declared again with what it holds, and the consumer is registered.
C_StartConsume ==
    /\ consumer.pc = "channel"
    /\ consumer.link = "up"
    /\ consumer' = [consumer EXCEPT !.pc = "consuming", !.prefetch = 1]
    /\ UNCHANGED <<settings, rows, subs, lock, req, queue, foreign, w, pubCount, ackedSent, store>>

\* The broker delivers the head of the queue to the consumer.
C_BrokerDeliver ==
    /\ BrokerMayDeliver(consumer)
    /\ queue # <<>>
    /\ queue' = Tail(queue)
    /\ consumer' = [consumer EXCEPT !.unacked = Append(@, Head(queue)),
                                    !.buffer = Append(@, Head(queue))]
    /\ UNCHANGED <<settings, rows, subs, lock, req, foreign, w, pubCount, ackedSent, store>>

\* async for message in queue_iter: await on_message_callback(message).
C_Invoke ==
    /\ consumer.pc = "consuming"
    /\ consumer.buffer # <<>>
    /\ LET m == Head(consumer.buffer)
           fresh == consumer.stale = 0
       IN consumer' = [consumer EXCEPT !.pc = "handling", !.inhand = m, !.live = fresh,
                                       !.buffer = Tail(@),
                                       !.stale = IF fresh THEN 0 ELSE @ - 1,
                                       !.seen = IF fresh THEN @ \cup {m.id} ELSE @]
    /\ UNCHANGED <<settings, rows, subs, lock, req, queue, foreign, w, pubCount, ackedSent, store>>

\* The callback returns, or raises into except Exception of the loop, which logs:
\* it has settled the delivery unless its channel was lost.
C_HandlerReturns ==
    /\ consumer.pc = "handling"
    /\ \E exit \in Exits :
        LET out == Outcome(exit, consumer.live)
        IN /\ out = "requeued" => consumer.faults < MaxFaults
           /\ queue' = IF out = "requeued" THEN <<consumer.inhand>> \o queue ELSE queue
           /\ consumer' = [consumer EXCEPT
                   !.pc = "consuming", !.inhand = NoMsg, !.live = FALSE,
                   !.unacked = IF out = "unsettled" THEN @ ELSE Tail(@),
                   !.done = IF out \in {"acked", "discarded"}
                            THEN @ \cup {consumer.inhand.id} ELSE @,
                   !.faults = IF out = "requeued" THEN @ + 1 ELSE @]
    /\ UNCHANGED <<settings, rows, subs, lock, req, foreign, w, pubCount, ackedSent, store>>

\* The connection to the broker is lost: the broker puts the unsettled deliveries back
\* on the queue; what the iterator and the callback hold was delivered on the lost
\* connection.
C_ConnLost ==
    /\ consumer.link = "up"
    /\ consumer.faults < MaxFaults
    /\ Len(consumer.buffer) <= MaxStale
    /\ queue' = consumer.unacked \o queue
    /\ consumer' = [consumer EXCEPT !.link = "down", !.unacked = <<>>,
                                    !.stale = Len(consumer.buffer), !.live = FALSE,
                                    !.owed = IdsOf(consumer.unacked \o queue),
                                    !.seen = {}, !.faults = @ + 1]
    /\ UNCHANGED <<settings, rows, subs, lock, req, foreign, w, pubCount, ackedSent, store>>

\* connect_robust: the library reconnects and restores the channel, its qos and the
\* consumer, the loop never seeing an exception.
C_Restore ==
    /\ consumer.link = "down"
    /\ consumer' = [consumer EXCEPT !.link = "up"]
    /\ UNCHANGED <<settings, rows, subs, lock, req, queue, foreign, w, pubCount, ackedSent, store>>

\* An awaited call of the attempt raises, as AMQPConnectionError after a lost
\* connection or as any other exception: both context managers exit and the
\* except clause sleeps.
C_LoopError ==
    /\ consumer.pc \in {"connected", "channel", "consuming"}
    /\ consumer.link = "up" => consumer.faults < MaxFaults
    /\ queue' = consumer.unacked \o queue
    /\ consumer' = AfterError([LeaveAttempt(consumer) EXCEPT
                       !.owed = IF consumer.link = "up"
                                THEN IdsOf(consumer.unacked \o queue) ELSE @,
                       !.seen = IF consumer.link = "up" THEN {} ELSE @,
                       !.faults = IF consumer.link = "up" THEN @ + 1 ELSE @])
    /\ UNCHANGED <<settings, rows, subs, lock, req, foreign, w, pubCount, ackedSent, store>>

\* The iterator ends without an exception: the blocks exit and while True starts the
\* next attempt at once.
C_IteratorEnds ==
    /\ consumer.pc = "consuming"
    /\ consumer.faults < MaxFaults
    /\ queue' = consumer.unacked \o queue
    /\ consumer' = [LeaveAttempt(consumer) EXCEPT
                       !.pc = "start",
                       !.owed = IF consumer.link = "up"
                                THEN IdsOf(consumer.unacked \o queue) ELSE @,
                       !.seen = IF consumer.link = "up" THEN {} ELSE @,
                       !.faults = @ + 1]
    /\ UNCHANGED <<settings, rows, subs, lock, req, foreign, w, pubCount, ackedSent, store>>

\* asyncio.sleep(10) is over: the next turn of while True.
C_Wake ==
    /\ consumer.pc = "sleeping"
    /\ consumer' = [consumer EXCEPT !.pc = "start"]
    /\ UNCHANGED <<settings, rows, subs, lock, req, queue, foreign, w, pubCount, ackedSent, store>>

\* The task is cancelled: CancelledError leaves the blocks, which close, and the
\* loop breaks (or, raised in the sleep of an except clause, leaves the function).
C_Cancel ==
    /\ consumer.pc # "returned"
    /\ queue' = consumer.unacked \o queue
    /\ consumer' = [LeaveAttempt(consumer) EXCEPT !.pc = "returned", !.cancelled = TRUE]
    /\ UNCHANGED <<settings, rows, subs, lock, req, foreign, w, pubCount, ackedSent, store>>

ConsumerNext ==
    \/ BacklogPublish
    \/ C_Connect
    \/ C_ConnectFail
    \/ C_OpenChannel
    \/ C_StartConsume
    \/ C_BrokerDeliver
    \/ C_Invoke
    \/ C_HandlerReturns
    \/ C_ConnLost
    \/ C_Restore
    \/ C_LoopError
    \/ C_IteratorEnds
    \/ C_Wake
    \/ C_Cancel

\* consume_messages, its broker and a publisher.
ConsumerSpec == Init /\ [][ConsumerNext]_vars

\* The event loop runs every step of consume_messages that is ready, the broker
\* delivers what it may, and the library or the loop reacts to a lost connection.
ConsumerFairness ==
    /\ WF_vars(C_Connect)
    /\ WF_vars(C_OpenChannel)
    /\ WF_vars(C_StartConsume)
    /\ WF_vars(C_BrokerDeliver)
    /\ WF_vars(C_Invoke)
    /\ WF_vars(C_HandlerReturns)
    /\ WF_vars(C_Restore \/ C_LoopError)
    /\ WF_vars(C_Wake)

ConsumerLiveSpec == Init /\ [][ConsumerNext]_vars /\ ConsumerFairness

\* ------------------------------------------------------------------ store sessions
\* What connection s reads: its own uncommitted changes, or the committed tables.
View(s) == IF store.writer = s THEN store.pend ELSE [table |-> store.table, rows |-> rows]

\* SELECT * ... WHERE user_id = ? AND fcm_token = ?
Matching(table, user_id, fcm_token) ==
    {r \in table : r.user_id = user_id /\ r.fcm_token = fcm_token}

\* endpoint_arn without its UNIQUE constraint.
ArnTakenNever(table, endpoint_arn, id) == FALSE

\* endpoint_arn TEXT NOT NULL UNIQUE: another row holds the value.
ArnTaken(table, endpoint_arn, id) ==
    \E r \in table : r.endpoint_arn = endpoint_arn /\ r.id # id

\* Whether the UPDATE or the INSERT of add_sns_push_subscription violates the constraint.
UpsertConflict(table, ss) ==
    IF ss.existing # NoSub
    THEN (\E r \in table : r.id = ss.existing.id)
         /\ ArnTaken(table, ss.endpoint_arn, ss.existing.id)
    ELSE ArnTaken(table, ss.endpoint_arn, 0)

\* The SnsPushSubscriptionDB the caller built, with the time of the call.
NewSub(ss) ==
    [id |-> ss.now, user_id |-> ss.user_id, fcm_token |-> ss.fcm_token,
     endpoint_arn |-> ss.endpoint_arn, is_enabled |-> TRUE,
     created_at |-> ss.now, updated_at |-> ss.now]

\* The row found is replaced by a new one.
UpsertedReplacing(table, ss) ==
    {r \in table : r.id # ss.existing.id} \cup {NewSub(ss)}

\* The UPDATE without is_enabled = TRUE: the flag of the row found is kept.
UpsertedKeepsFlag(table, ss) ==
    IF ss.existing # NoSub
    THEN {IF r.id = ss.existing.id
          THEN [r EXCEPT !.endpoint_arn = ss.endpoint_arn, !.updated_at = ss.now]
          ELSE r : r \in table}
    ELSE table \cup {NewSub(ss)}

\* add_sns_push_subscription: UPDATE ... SET endpoint_arn, updated_at, is_enabled = TRUE
\* WHERE id = existing id, or INSERT of the new row.
Upserted(table, ss) ==
    IF ss.existing # NoSub
    THEN {IF r.id = ss.existing.id
          THEN [r EXCEPT !.endpoint_arn = ss.endpoint_arn, !.updated_at = ss.now,
                         !.is_enabled = TRUE]
          ELSE r : r \in table}
    ELSE table \cup {NewSub(ss)}

\* get_sns_push_subscriptions_by_user_id: SELECT * ... WHERE user_id = ? AND
\* is_enabled = TRUE.
get_sns_push_subscriptions_by_user_id(table, user_id) ==
    {r \in table : r.user_id = user_id /\ r.is_enabled}

\* The subscription add_sns_push_subscription returns.
ReturnedSub(ss) ==
    IF ss.existing # NoSub
    THEN [NewSub(ss) EXCEPT !.id = ss.existing.id, !.created_at = ss.existing.created_at]
    ELSE NewSub(ss)

\* Each statement of a store function is committed as it is executed.
CommittedAfterAutocommit(committed, pending) == pending

\* The committed state after a store function: conn.commit() is left to the caller.
CommittedAfter(committed, pending) == committed

\* main.py, register_android_device_for_sns_push: the response to an exception raised
\* while the subscription is saved.
RegisterResponse(exc) == IF exc = "IntegrityError" THEN "409" ELSE "500"

\* A connection executes a write statement when no other holds the write lock.
MayWrite(s) == store.writer \in {0, s}

\* The state after connection s has executed a write statement that left the tables
\* as in after.
Called(s, op, after, returned, result) ==
    [store EXCEPT !.table = CommittedAfter(@, after.table),
                  !.pend = after, !.writer = s,
                  !.sess[s] = [@ EXCEPT !.pc = "called", !.op = op, !.returned = returned,
                                        !.result = result]]

\* The state after a statement of connection s has raised.
Raised(s, op, error) ==
    [store EXCEPT !.sess[s] = [@ EXCEPT !.pc = "raised", !.op = op, !.error = error]]

\* get_db_connection: aiosqlite.connect. Callers are alike, so the next one is numbered
\* once the one before has executed its first statement.
S_Open(s) ==
    /\ store.sess[s].pc = "idle"
    /\ (IF s = 1 THEN TRUE ELSE store.sess[s - 1].pc \notin {"idle", "open"})
    /\ store' = [store EXCEPT !.sess[s].pc = "open"]
    /\ UNCHANGED <<settings, rows, subs, lock, req, queue, foreign, w, pubCount, ackedSent, consumer>>

\* add_sns_push_subscription up to now = datetime.utcnow(): the SELECT and fetchone.
S_AddSelect(s) ==
    /\ store.sess[s].pc = "open"
    /\ \E u \in Users, t \in Tokens, a \in Endpoints :
        LET found == Matching(View(s).table, u, t)
        IN \E e \in (IF found = {} THEN {NoSub} ELSE found) :
            store' = [store EXCEPT
                        !.clock = @ + 1,
                        !.sess[s] = [@ EXCEPT !.pc = "selected", !.op = "add", !.user_id = u,
                                              !.fcm_token = t, !.endpoint_arn = a,
                                              !.now = store.clock + 1, !.existing = e]]
    /\ UNCHANGED <<settings, rows, subs, lock, req, queue, foreign, w, pubCount, ackedSent, consumer>>

\* add_sns_push_subscription from the UPDATE or INSERT to its return.
S_AddWrite(s) ==
    /\ store.sess[s].pc = "selected"
    /\ MayWrite(s)
    /\ LET v == View(s)
           ss == store.sess[s]
           after == [v EXCEPT !.table = Upserted(v.table, ss)]
       IN IF UpsertConflict(v.table, ss)
          THEN /\ store' = Raised(s, "add", "IntegrityError")
               /\ rows' = rows
          ELSE /\ store' = Called(s, "add", after, ReturnedSub(ss), TRUE)
               /\ rows' = CommittedAfter(rows, after.rows)
    /\ UNCHANGED <<settings, subs, lock, req, queue, foreign, w, pubCount, ackedSent, consumer>>

\* delete_sns_push_subscription_by_endpoint_arn.
S_Delete(s) ==
    /\ store.sess[s].pc = "open"
    /\ MayWrite(s)
    /\ \E a \in Endpoints :
        LET v == View(s)
            after == [v EXCEPT !.table = {r \in v.table : r.endpoint_arn # a}]
        IN /\ store' = Called(s, "delete", after, NoSub, after.table # v.table)
           /\ rows' = CommittedAfter(rows, after.rows)
    /\ UNCHANGED <<settings, subs, lock, req, queue, foreign, w, pubCount, ackedSent, consumer>>

\* disable_sns_push_subscription_by_endpoint_arn.
S_Disable(s) ==
    /\ store.sess[s].pc = "open"
    /\ MayWrite(s)
    /\ \E a \in Endpoints :
        LET v == View(s)
            after == [v EXCEPT !.table =
                        {IF r.endpoint_arn = a
                         THEN [r EXCEPT !.is_enabled = FALSE, !.updated_at = store.clock]
                         ELSE r : r \in v.table}]
        IN /\ store' = Called(s, "disable", after, NoSub,
                              \E r \in v.table : r.endpoint_arn = a)
           /\ rows' = CommittedAfter(rows, after.rows)
    /\ UNCHANGED <<settings, subs, lock, req, queue, foreign, w, pubCount, ackedSent, consumer>>

\* insert_notification.
S_InsertNotification(s) ==
    /\ store.sess[s].pc = "open"
    /\ MayWrite(s)
    /\ \E id \in {1}, channel \in {"EMAIL", "PUSH_ANDROID"} :
        LET v == View(s)
            after == [v EXCEPT !.rows[id] = InsertedRow(channel, "PENDING", NoSendAt)]
        IN IF v.rows[id] # NoRow \/ ~ChannelCheck(channel)
           THEN /\ store' = Raised(s, "insert", "IntegrityError")
                /\ rows' = rows
           ELSE /\ store' = Called(s, "insert", after, NoSub, TRUE)
                /\ rows' = CommittedAfter(rows, after.rows)
    /\ UNCHANGED <<settings, subs, lock, req, queue, foreign, w, pubCount, ackedSent, consumer>>

\* update_notification_status.
S_UpdateNotification(s) ==
    /\ store.sess[s].pc = "open"
    /\ MayWrite(s)
    /\ \E id \in {1}, status \in {"SENT", "FAILED"} :
        LET v == View(s)
            after == IF v.rows[id] # NoRow
                     THEN [v EXCEPT !.rows[id].status = status, !.rows[id].updated_at = Later]
                     ELSE v
        IN /\ store' = Called(s, "update", after, NoSub, v.rows[id] # NoRow)
           /\ rows' = CommittedAfter(rows, after.rows)
    /\ UNCHANGED <<settings, subs, lock, req, queue, foreign, w, pubCount, ackedSent, consumer>>

\* A write statement waits for the lock another connection holds until the timeout:
\* sqlite3.OperationalError, database is locked.
S_Locked(s) ==
    /\ store.sess[s].pc \in {"open", "selected"}
    /\ ~MayWrite(s)
    /\ store' = Raised(s, store.sess[s].op, "OperationalError")
    /\ UNCHANGED <<settings, rows, subs, lock, req, queue, foreign, w, pubCount, ackedSent, consumer>>

\* The caller's conn.commit().
S_Commit(s) ==
    /\ store.sess[s].pc = "called"
    /\ store.writer = s
    /\ rows' = store.pend.rows
    /\ store' = [store EXCEPT !.table = store.pend.table, !.writer = 0,
                              !.sess[s].pc = "committed"]
    /\ UNCHANGED <<settings, subs, lock, req, queue, foreign, w, pubCount, ackedSent, consumer>>

\* get_db_connection's finally: conn.close(), which rolls back what is not committed.
S_Close(s) ==
    /\ store.sess[s].pc \in {"open", "called", "committed", "raised"}
    /\ store' = [store EXCEPT
                   !.writer = IF @ = s THEN 0 ELSE @,
                   !.pend = IF store.writer = s THEN [table |-> store.table, rows |-> rows]
                            ELSE @,
                   !.sess[s] = [SessIdle EXCEPT !.pc = "closed",
                                                !.discarded = store.sess[s].pc = "called"]]
    /\ UNCHANGED <<settings, rows, subs, lock, req, queue, foreign, w, pubCount, ackedSent, consumer>>

StoreNext ==
    \/ \E s \in Sessions : S_Open(s)
    \/ \E s \in Sessions : S_AddSelect(s)
    \/ \E s \in Sessions : S_AddWrite(s)
    \/ \E s \in Sessions : S_Delete(s)
    \/ \E s \in Sessions : S_Disable(s)
    \/ \E s \in Sessions : S_InsertNotification(s)
    \/ \E s \in Sessions : S_UpdateNotification(s)
    \/ \E s \in Sessions : S_Locked(s)
    \/ \E s \in Sessions : S_Commit(s)
    \/ \E s \in Sessions : S_Close(s)

\* The store functions under callers that each open a connection, call one of the
\* functions, and commit or close.
StoreSpec == Init /\ [][StoreNext]_vars

\* The row a first registration has committed: NewSub of a caller at time 1.
RegisteredSub ==
    [id |-> 1, user_id |-> "u1", fcm_token |-> "t1", endpoint_arn |-> 1, is_enabled |-> TRUE,
     created_at |-> 1, updated_at |-> 1]

\* The service after one device has been registered and its connection closed.
RegisteredInit ==
    /\ settings = [AWS |-> TRUE, TWILIO |-> TRUE, TEXTBEE |-> TRUE, ARN |-> TRUE]
    /\ rows = [i \in Ids |-> NoRow]
    /\ subs = [e \in {} |-> TRUE]
    /\ lock = "free"
    /\ req = [p \in ReqIds |-> NoReq]
    /\ queue = <<>>
    /\ foreign = 0
    /\ w = WIdle
    /\ pubCount = [i \in Ids |-> 0]
    /\ ackedSent = {}
    /\ consumer = ConsumerStart
    /\ store = [StoreStart EXCEPT !.table = {RegisteredSub}, !.pend.table = {RegisteredSub},
                                  !.clock = 1]

\* The store functions called on a store that holds a registered device.
RegisteredSpec == RegisteredInit /\ [][StoreNext]_vars

\* ------------------------------------------------------------------ properties
\* A handling of a delivery has returned and no later one has started.
Handled == w.pc = "idle" /\ w.msg # NoMsg

InQueue(m) == \E i \in 1..Len(queue) : queue[i] = m

\* C1: a row is committed for an id only if ingest published a message with that
\* id before: never persist-without-publish, whichever step fails.
C1_NoPersistWithoutPublish ==
    \A p \in ReqIds : rows[p] # NoRow => pubCount[p] >= 1

C1_Witness ==
    \E p \in ReqIds : rows[p] # NoRow /\ pubCount[p] = 1 /\ req[p].response = "202"

\* C2: a request that reported an error left no committed row and published no
\* message for its id; one that reported success left exactly one of each.
C2_ErrorLeavesNothing ==
    \A p \in ReqIds :
        req[p].pc = "done" =>
            IF req[p].response = "202"
            THEN rows[p] # NoRow /\ pubCount[p] = 1
            ELSE rows[p] = NoRow /\ pubCount[p] = 0

\* C3: a publish failure after a successful insert leaves no committed row and is
\* reported as 503, service unavailable.
C3_PublishFailureIs503 ==
    \A p \in ReqIds :
        req[p].failed_at = "publish" => rows[p] = NoRow /\ req[p].response = "503"

Malformed(m) ==
    \/ m.form \in {"undecodable", "badjson", "nonobject"}
    \/ m.form = "record" /\ m.channel \notin Channels
    \/ m.form = "record" /\ ~(Required(m.channel) \subseteq m.has)
    \/ m.form = "record" /\ m.channel = "SMS" /\ m.sms_provider \notin Providers

\* C5: a malformed or invariant-violating payload is nacked without requeue, with
\* no transport call and no access to the store.
C5_MalformedDiscarded ==
    (Handled /\ Malformed(w.msg)) =>
        /\ Head(w.issued) = "nack_discard"
        /\ w.calls = 0
        /\ ~w.touched

\* The transport answer of a handling: sent_successfully, or all of push_results.
SendSucceeded ==
    IF w.msg.channel = "PUSH_ANDROID"
    THEN Len(w.results) > 0 /\ \A i \in 1..Len(w.results) : w.results[i]
    ELSE w.sent

C6_Case ==
    /\ Handled
    /\ w.msg.channel \in {"EMAIL", "SMS", "PUSH_ANDROID"}
    /\ w.updated
    /\ w.wrote = "ok"

RowUntouched ==
    IF w.rowBefore # NoRow THEN rows[w.msg.id] = w.rowBefore
    ELSE rows[w.msg.id].status \in {"-", "PENDING", "SCHEDULED"}

\* C7: a store error while the final status is written or committed ends in
\* nack with requeue and no ack, the message stays queued, and the row keeps the
\* status it had before the handling.
C7_StoreErrorRequeues ==
    (Handled /\ w.wrote \in {"connect_error", "update_error", "commit_error"}) =>
        /\ Head(w.issued) = "nack_requeue"
        /\ \A i \in 1..Len(w.issued) : w.issued[i] = "nack_requeue"
        /\ w.outcome \in {"requeued", "unsettled"}
        /\ InQueue(w.msg)
        /\ RowUntouched

C7_Witness ==
    /\ Handled /\ w.wrote = "commit_error" /\ w.rowBefore # NoRow
    /\ w.updated /\ w.outcome = "requeued"

\* C8: an ack is issued only in a handling whose status update was committed
\* without error, and only once that commit is done.
C8_AckOnlyAfterCommit ==
    \A i \in 1..Len(w.issued) : w.issued[i] = "ack" => w.wrote = "ok" /\ w.pc = "idle"

C8_Witness ==
    Handled /\ w.issued = <<"ack">> /\ w.wrote = "ok" /\ w.updated

C9_Case ==
    /\ w.decoded = "ok" /\ w.final_status # "-"
    /\ w.msg.channel = "PUSH_ANDROID"
    /\ "user_id" \in w.msg.has
    /\ settings.ARN

\* C9: PUSH_ANDROID with user id and platform configuration: one send per enabled
\* subscription; FAILED with none, otherwise SENT iff every send returned true.
C9_PushAllOrNothing ==
    C9_Case =>
        /\ Len(w.results) = Cardinality(w.subsRead)
        /\ w.subsRead = {} => w.final_status = "FAILED"
        /\ w.subsRead # {} =>
             /\ w.final_status \in {"SENT", "FAILED"}
             /\ w.final_status = "SENT" <=> \A i \in 1..Len(w.results) : w.results[i]

C9_Witness ==
    /\ C9_Case /\ Cardinality(w.subsRead) = 2
    /\ w.results = <<TRUE, FALSE>> /\ w.final_status = "FAILED" /\ w.wrote = "ok"

\* C10: once the message of a successfully ingested notification has been acked
\* in a handling whose send succeeded, its committed row has status SENT.
C10_AckedSentIsSent ==
    \A p \in ReqIds :
        (req[p].response = "202" /\ p \in ackedSent) => rows[p].status = "SENT"

C10_Witness ==
    \E p \in ReqIds :
        /\ req[p].response = "202" /\ p \in ackedSent /\ rows[p].status = "SENT"
        /\ Handled /\ w.msg.id = p /\ w.rowBefore = NoRow /\ w.updated

\* The message published for request p is neither ready on the queue nor in the
\* hands of the handler: it has left the queue for good.
Removed(p) ==
    /\ pubCount[p] >= 1
    /\ ~InQueue(MessageOf(p, req[p]))
    /\ ~(w.pc # "idle" /\ w.msg.id = p)

\* C11: a valid message published by ingest is never removed from the queue
\* without a status having been persisted for its notification.
C11_NeverRemovedWithoutStatus ==
    \A p \in ReqIds :
        Removed(p) => rows[p].status \in {"PROCESSING_STUB", "SENT", "FAILED"}

\* C12: an exception outside the decode/validation and status-write handlers (the
\* store connection cannot be opened, the push subscriptions cannot be read) ends
\* in nack with requeue and nothing else, the message stays queued, and the
\* handling has written no status: the stored row is as it was.
C12_UnexpectedErrorRequeues ==
    (Handled /\ w.exit = "outer_error") =>
        /\ w.issued = <<"nack_requeue">>
        /\ w.outcome \in {"requeued", "unsettled"}
        /\ InQueue(w.msg)
        /\ ~w.updated /\ w.wrote # "ok"
        /\ RowUntouched

C12_Witness ==
    /\ Handled /\ w.exit = "outer_error" /\ w.outcome = "requeued"
    /\ w.msg.channel = "PUSH_ANDROID" /\ w.decoded = "ok" /\ w.touched
    /\ ~w.raised /\ w.wrote = "-"

\* C13: no exception propagates out of process_notification_message; every
\* failure, also one of ack or nack inside its except clauses, is caught there.
C13_NothingEscapes == Handled => ~w.escaped

\* C14: across all deliveries of a notification's message at most one status update
\* of its row is committed: a commit of the worker that changes a row finds the
\* row in the status ingest gave it.
C14_AtMostOneUpdate ==
    [][(w.pc = "updated" /\ w'.pc = "committed" /\ w.updated)
          => rows[w.msg.id].status \in {"PENDING", "SCHEDULED"}]_vars

\* C15: a handling in which a provider transport call raised, and whose store and
\* channel are in order, records FAILED and acknowledges; the message is not
\* requeued.
C15_TransportRaiseIsFailure ==
    (/\ Handled /\ w.raised /\ w.chan = "open"
     /\ w.wrote \notin {"connect_error", "update_error", "commit_error"}) =>
        /\ w.final_status = "FAILED"
        /\ w.wrote = "ok"
        /\ w.issued = <<"ack">>
        /\ w.outcome = "acked"

\* A decodable record that lacks what its channel requires: EMAIL without
\* recipient_email or subject, SMS without provider or recipient_phone,
\* PUSH_ANDROID without user id or without platform application configuration.
MissingField(m) ==
    /\ m.form = "record"
    /\ "message_body" \in m.has
    /\ \/ m.channel = "EMAIL" /\ ~({"recipient_email", "subject"} \subseteq m.has)
       \/ m.channel = "SMS" /\ (m.sms_provider = "-" \/ "recipient_phone" \notin m.has)
       \/ m.channel = "PUSH_ANDROID" /\ ("user_id" \notin m.has \/ ~settings.ARN)

\* C16 as stated: such a message, the store and the channel being in order, ends
\* with status FAILED persisted and a positive ack, with no transport call.
C16_MissingFieldFailsAndAcks ==
    (/\ Handled /\ MissingField(w.msg) /\ w.chan = "open"
     /\ w.wrote \notin {"connect_error", "update_error", "commit_error"}) =>
        /\ w.final_status = "FAILED"
        /\ w.wrote = "ok"
        /\ w.issued = <<"ack">>
        /\ w.calls = 0

\* C16 as amended: a PUSH_ANDROID message that has its user id but no platform
\* application configuration gets FAILED and, when the status write succeeds and
\* the channel is open, a positive ack, with no transport call and no
\* subscription read; a message that lacks a field of its own is rejected by
\* validation: nack without requeue, no status computed, no store access.
C16_MissingFieldHandled ==
    (Handled /\ MissingField(w.msg)) =>
        IF w.msg.channel = "PUSH_ANDROID" /\ "user_id" \in w.msg.has
        THEN /\ w.final_status = "FAILED" /\ w.calls = 0 /\ w.subsRead = {}
             /\ (w.wrote = "ok" /\ w.chan = "open") =>
                    w.issued = <<"ack">> /\ w.outcome = "acked"
        ELSE /\ Head(w.issued) = "nack_discard"
             /\ w.final_status = "-" /\ w.calls = 0 /\ ~w.touched

C16_Witness ==
    /\ Handled /\ MissingField(w.msg)
    /\ w.msg.channel = "PUSH_ANDROID" /\ "user_id" \in w.msg.has /\ ~settings.ARN
    /\ w.final_status = "FAILED" /\ w.wrote = "ok" /\ w.issued = <<"ack">>

\* An SMS record, complete but for its provider: one that SmsProviderEnum does not
\* list, or one whose credentials are not configured.
UnusableProvider(m) ==
    /\ m.form = "record" /\ m.channel = "SMS"
    /\ {"recipient_phone", "message_body"} \subseteq m.has
    /\ m.sms_provider # "-"
    /\ \/ m.sms_provider \notin Providers
       \/ m.sms_provider = "TWILIO" /\ ~settings.TWILIO
       \/ m.sms_provider = "AWS_SNS" /\ ~settings.AWS
       \/ m.sms_provider = "TEXTBEE" /\ ~settings.TEXTBEE

\* C17 as stated: for such a message, the store and the channel being in order,
\* no transport is called, FAILED is written and the message is acknowledged.
C17_UnusableProviderFails ==
    (/\ Handled /\ UnusableProvider(w.msg) /\ w.chan = "open"
     /\ w.wrote \notin {"connect_error", "update_error", "commit_error"}) =>
        /\ w.calls = 0
        /\ w.final_status = "FAILED"
        /\ w.wrote = "ok"
        /\ w.issued = <<"ack">>

\* C17 as amended: no transport is called; with a listed provider whose
\* configuration is missing the status is FAILED, it is the status stored when the
\* row exists and the write succeeds, and the delivery is settled by the ack when
\* moreover the channel is open; with an unlisted provider the message is
\* rejected by validation: nack without requeue, no status, no store access.
C17_UnconfiguredProviderFails ==
    (Handled /\ UnusableProvider(w.msg)) =>
        /\ w.calls = 0
        /\ IF w.msg.sms_provider \in Providers
           THEN /\ w.final_status = "FAILED" /\ ~w.sent
                /\ (w.wrote = "ok" /\ w.updated) => rows[w.msg.id].status = "FAILED"
                /\ (w.wrote = "ok" /\ w.chan = "open") =>
                       w.issued = <<"ack">> /\ w.outcome = "acked"
           ELSE /\ Head(w.issued) = "nack_discard"
                /\ w.final_status = "-" /\ ~w.touched

C17_Witness ==
    /\ Handled /\ UnusableProvider(w.msg) /\ w.msg.sms_provider = "TWILIO"
    /\ w.final_status = "FAILED" /\ w.calls = 0 /\ w.wrote = "ok" /\ w.issued = <<"ack">>

C20_PushAndroidAccepted ==
    \A p \in ReqIds :
        (/\ req[p].pc = "done" /\ req[p].channel = "PUSH_ANDROID"
         /\ req[p].failed_at \notin {"status", "insert_other", "publish", "commit"}) =>
            /\ req[p].response = "202"
            /\ rows[p] # NoRow
            /\ pubCount[p] = 1

\* C21: with prefetch_count=1 the broker holds at most one unsettled delivery to the
\* consumer, and while the callback runs a delivery of the current connection that
\* delivery is the only unsettled one: no further message is handed over before the
\* callback has returned and the delivery is settled.
C21_OneInFlight ==
    /\ Len(consumer.unacked) <= 1
    /\ Len(consumer.buffer) - consumer.stale <= 1
    /\ consumer.pc = "handling" /\ consumer.live => consumer.unacked = <<consumer.inhand>>
    /\ consumer.pc = "handling" => consumer.buffer = <<>> \/ consumer.stale > 0 \/ ~consumer.live
    /\ consumer.pc # "handling" => consumer.inhand = NoMsg

\* The callback is running a delivery while a second message waits on the queue.
C21_Witness ==
    /\ consumer.pc = "handling"
    /\ consumer.live
    /\ queue # <<>>
    /\ consumer.inhand.id = 1

\* Every message published is in exactly one place: settled for good, or still held by
\* the broker, on the queue or as an unsettled delivery.
BacklogKept ==
    \A k \in 1..foreign :
        /\ (k \in consumer.done) # (k \in IdsOf(queue \o consumer.unacked))
        /\ Cardinality({i \in 1..Len(queue \o consumer.unacked) :
                            (queue \o consumer.unacked)[i].id = k}) <= 1

\* C22: consume_messages returns only when cancelled; it starts a new attempt only
\* after the sleep of an except clause or after the iterator ended; no message is lost
\* over a reconnection; and every message that was on the queue or unsettled when the
\* connection was lost is handed to the callback again, unless the task is cancelled.
C22_ResumesAfterError ==
    /\ [](consumer.pc = "returned" => consumer.cancelled)
    /\ [][consumer'.pc = "start" /\ consumer.pc # "start"
            => consumer.pc \in {"sleeping", "consuming"}]_vars
    /\ [][consumer.pc \in {"connected", "channel", "consuming", "handling"}
          /\ consumer'.pc \notin {"connected", "channel", "consuming", "handling", "start"}
            => consumer'.pc = IF consumer'.cancelled THEN "returned" ELSE "sleeping"]_vars
    /\ []BacklogKept
    /\ \A k \in 1..MaxBacklog :
          (k \in consumer.owed) ~> (k \in consumer.seen \/ consumer.cancelled)

\* A message that was pending when the connection was lost has been handed to the
\* callback on the connection opened after the sleep.
C22_Witness ==
    /\ consumer.owed \cap consumer.seen # {}
    /\ consumer.pc = "handling"
    /\ consumer.live
    /\ ~consumer.cancelled

\* C23: the consumer never holds more than one open connection or channel, and at the
\* top of the loop, during the sleep of an except clause and after the return, the
\* channel and the connection of the attempt just left are closed.
C23_ClosedBetweenAttempts ==
    /\ consumer.conns <= 1
    /\ consumer.chans <= 1
    /\ consumer.pc \in {"start", "sleeping", "returned"} =>
          consumer.conns = 0 /\ consumer.chans = 0

\* An attempt that had a channel and deliveries was left by an error.
C23_Witness ==
    /\ consumer.pc = "sleeping"
    /\ consumer.owed # {}
    /\ consumer.conns = 0
    /\ consumer.chans = 0

\* C24: when add_sns_push_subscription finds the one row of its (user_id, fcm_token),
\* as a second call in sequence does, the pair still has exactly one row afterwards:
\* the row found with the endpoint_arn and the time of this call as updated_at, its id
\* and created_at as they were; the subscription returned carries that id and created_at.
C24_UpsertKeepsIdentity ==
    [][\A s \in Sessions :
        LET ss == store.sess[s]
        IN (/\ ss.pc = "selected"
            /\ store'.sess[s].pc = "called"
            /\ ss.existing # NoSub
            /\ Matching(View(s).table, ss.user_id, ss.fcm_token) = {ss.existing})
           => /\ Matching(store'.pend.table, ss.user_id, ss.fcm_token) =
                    {[ss.existing EXCEPT !.endpoint_arn = ss.endpoint_arn,
                                         !.updated_at = ss.now, !.is_enabled = TRUE]}
              /\ Cardinality(store'.pend.table) = Cardinality(View(s).table)
              /\ store'.sess[s].returned.id = ss.existing.id
              /\ store'.sess[s].returned.created_at = ss.existing.created_at
              /\ store'.sess[s].returned.updated_at = ss.now
              /\ store'.sess[s].returned.endpoint_arn = ss.endpoint_arn]_vars

\* A second call for the pair, with another endpoint_arn and at a later time, has
\* updated the row the first call inserted.
C24_Witness ==
    \E s \in Sessions :
        LET ss == store.sess[s]
        IN /\ ss.pc = "called"
           /\ ss.op = "add"
           /\ ss.existing # NoSub
           /\ ss.existing.endpoint_arn # ss.endpoint_arn
           /\ ss.existing.created_at < ss.now
           /\ ss.returned.id = ss.existing.id
           /\ Cardinality(Matching(store.pend.table, ss.user_id, ss.fcm_token)) = 1

NoSharedArn(table) ==
    \A r1 \in table, r2 \in table : r1.endpoint_arn = r2.endpoint_arn => r1 = r2

\* The upsert of connection s would give a row an endpoint_arn that another row holds.
Clash(s) ==
    LET ss == store.sess[s]
        t == View(s).table
    IN \E r \in t :
        /\ r.endpoint_arn = ss.endpoint_arn
        /\ \/ ss.existing = NoSub
           \/ r.id # ss.existing.id /\ (\E x \in t : x.id = ss.existing.id)

\* C25: no two rows share an endpoint_arn, committed or within a transaction; an upsert
\* that would give a row the endpoint_arn of another row raises IntegrityError, which
\* registration answers with 409, and leaves both the committed and the uncommitted
\* state as they were.
C25_UniqueEndpointArn ==
    /\ [](NoSharedArn(store.table) /\ NoSharedArn(store.pend.table))
    /\ [][\A s \in Sessions :
            (/\ store.sess[s].pc = "selected"
             /\ store'.sess[s].pc # "selected"
             /\ MayWrite(s)
             /\ Clash(s))
            => /\ store'.sess[s].pc = "raised"
               /\ store'.sess[s].error = "IntegrityError"
               /\ RegisterResponse(store'.sess[s].error) = "409"
               /\ store'.table = store.table
               /\ store'.pend = store.pend
               /\ store'.writer = store.writer
               /\ rows' = rows]_vars

\* An upsert was refused while another pair's row holds the endpoint_arn.
C25_Witness ==
    \E s \in Sessions :
        /\ store.sess[s].pc = "raised"
        /\ store.sess[s].op = "add"
        /\ store.sess[s].error = "IntegrityError"
        /\ \E r \in store.table :
              /\ r.endpoint_arn = store.sess[s].endpoint_arn
              /\ r.fcm_token # store.sess[s].fcm_token

\* C26: the committed tables change only in a step in which a caller commits; a step
\* in which a store function runs, and a step in which a connection is closed with
\* changes not committed, leave them as they were.
C26_NoCommitInStoreFunctions ==
    /\ [][(store'.table # store.table \/ rows' # rows)
            => \E s \in Sessions : /\ store.sess[s].pc = "called"
                                   /\ store'.sess[s].pc = "committed"
                                   /\ store.writer = s]_vars
    /\ [][\A s \in Sessions :
            store'.sess[s].pc \in {"called", "raised", "closed"}
            /\ store.sess[s].pc # store'.sess[s].pc
            => store'.table = store.table /\ rows' = rows]_vars

\* A connection was closed after a store function had changed a table, nothing committed.
C26_Witness ==
    \E s \in Sessions :
        /\ store.sess[s].pc = "closed"
        /\ store.sess[s].discarded
        /\ store.table = {}
        /\ rows[1] = NoRow

\* C27: update_notification_status for an id that has no row returns false and changes
\* no row; the worker commits, which changes nothing, and acks, so that the message
\* leaves the queue while the id still has no row and no status.
C27_UpdateOfAbsentRow ==
    /\ [][(w.pc = "persist" /\ w'.pc = "updated" /\ rows[w.msg.id] = NoRow)
            => ~w'.updated /\ rows' = rows]_vars
    /\ [][(w.pc = "updated" /\ w'.pc = "committed" /\ ~w.updated)
            => rows' = rows /\ w'.wrote = "ok"]_vars
    /\ []((Handled /\ w.decoded = "ok" /\ w.wrote = "ok" /\ ~w.updated) =>
            /\ rows[w.msg.id] = NoRow
            /\ Head(w.issued) = "ack"
            /\ w.chan = "open" => w.outcome = "acked" /\ ~InQueue(w.msg))

\* The message of a request whose commit failed has been handled: no row, acked.
C27_Witness ==
    /\ Handled
    /\ w.msg.id # 0
    /\ w.wrote = "ok"
    /\ ~w.updated
    /\ w.outcome = "acked"
    /\ rows[w.msg.id] = NoRow
    /\ ~InQueue(w.msg)

\* C28: one handling calls the transport at most once for EMAIL and SMS and at most
\* once per subscription read for PUSH_ANDROID; the calls are made in the dispatch
\* step only, so a handling whose status write fails returns without a further call,
\* and the next call belongs to the handling of a later delivery.
C28_AtMostOneSendPerTarget ==
    /\ [](w.calls <= (CASE w.msg.channel \in {"EMAIL", "SMS"} -> 1
                        [] w.msg.channel = "PUSH_ANDROID" -> Cardinality(w.subsRead)
                        [] OTHER -> 0))
    /\ [][w'.calls # w.calls =>
            \/ w.pc = "received" /\ w'.pc = "persist"
            \/ w.pc = "idle" /\ w'.pc = "received" /\ w'.calls = 0]_vars
    /\ [][(w'.wrote \in {"connect_error", "update_error", "commit_error"}
           /\ w.wrote # w'.wrote)
            => w'.pc = "idle" /\ w'.calls = w.calls]_vars

\* A handling that sent once and whose status write failed has returned, its message
\* back on the queue.
C28_Witness ==
    /\ Handled
    /\ w.msg.channel \in {"EMAIL", "SMS"}
    /\ w.calls = 1
    /\ w.wrote \in {"update_error", "commit_error"}
    /\ w.outcome = "requeued"
    /\ InQueue(w.msg)

\* C29: when the PUSH_ANDROID branch has computed a status, push_results holds one
\* answer for every subscription read, in order, whatever the answers before it, every
\* send was made, and the status is the one the complete results give.
C29_PushJoin ==
    (/\ w.decoded = "ok" /\ w.final_status # "-"
     /\ w.msg.channel = "PUSH_ANDROID"
     /\ w.touched)
    => /\ Len(w.results) = Cardinality(w.subsRead)
       /\ settings.AWS => w.calls = Cardinality(w.subsRead)
       /\ w.final_status = PushStatus(w.results)
       /\ ~w.raised

\* The first send returned False and the second was still made.
C29_Witness ==
    /\ w.msg.channel = "PUSH_ANDROID"
    /\ Cardinality(w.subsRead) = 2
    /\ w.results = <<FALSE, TRUE>>
    /\ w.calls = 2
    /\ w.final_status = "FAILED"

C32_ExactlyOneSettlement ==
    /\ (w.pc \notin {"idle"} => w.issued = <<>>)
    /\ (Handled /\ w.chan = "open") =>
            /\ Len(w.issued) = 1
            /\ w.issued[1] \in {"ack", "nack_requeue", "nack_discard"}
            /\ w.issued[1] = (CASE w.exit = "ack" -> "ack"
                                [] w.exit \in {"reject_model", "reject_json"} -> "nack_discard"
                                [] OTHER -> "nack_requeue")
            /\ ~w.escaped

C32_Witness ==
    /\ Handled /\ w.chan = "open" /\ w.exit = "reject_model"
    /\ w.issued = <<"nack_discard">> /\ w.outcome = "discarded"

\* The loop waits for a delivery on an open channel while messages are ready.
WaitingWithBacklog ==
    /\ consumer.pc = "consuming" /\ consumer.link = "up"
    /\ consumer.buffer = <<>> /\ queue # <<>>

\* C33: every delivery handed to the callback is settled: the callback returns (or
\* raises into the loop, which logs), a delivery made on the live connection is then
\* acked, discarded or back on the queue, and while the loop waits for a delivery the
\* broker holds no unsettled delivery other than those the iterator has not yet handed
\* out, so that with prefetch 1 the next ready message is eventually delivered.
C33_EveryDeliverySettled ==
    /\ [](consumer.pc = "consuming" =>
            Len(consumer.unacked) = Len(consumer.buffer) - consumer.stale)
    /\ [][(consumer.pc = "handling" /\ consumer'.pc = "consuming" /\ consumer.live) =>
            \/ consumer.inhand.id \in consumer'.done
            \/ (queue' # <<>> /\ Head(queue') = consumer.inhand)]_vars
    /\ (consumer.pc = "handling") ~> (consumer.pc # "handling")
    /\ WaitingWithBacklog ~>
            (consumer.buffer # <<>> \/ consumer.pc # "consuming" \/ consumer.link # "up")

\* A message has been settled and the next one has been delivered to the waiting loop.
C33_Witness ==
    /\ consumer.pc = "consuming" /\ consumer.link = "up"
    /\ consumer.done # {}
    /\ consumer.stale = 0 /\ Len(consumer.buffer) = 1
    /\ consumer.unacked = consumer.buffer
    /\ consumer.buffer[1].id \notin consumer.done

\* C34: once the committed status of a notification is SENT, no later step, and so no
\* handling of a redelivered copy of its message, changes that status to FAILED.
C34_SentStaysSent ==
    [][\A i \in Ids : rows[i].status = "SENT" => rows'[i].status # "FAILED"]_vars

WorkerStatuses == {"PROCESSING_STUB", "SENT", "FAILED"}

\* C35: the worker writes only PROCESSING_STUB, SENT or FAILED: the status it computes
\* and the status its commit leaves are among these, a row that has one of them never
\* has PENDING or SCHEDULED again, and a row gets PENDING or SCHEDULED only from the
\* commit of the ingest that inserts it.
C35_WorkerStatuses ==
    /\ [](w.final_status \in WorkerStatuses \cup {"-"})
    /\ [][(w.pc = "updated" /\ w'.pc = "committed" /\ w.updated) =>
            rows'[w.msg.id].status \in WorkerStatuses]_vars
    /\ [][\A i \in Ids : rows[i].status \in WorkerStatuses =>
            rows'[i].status \in WorkerStatuses]_vars
    /\ [][\A i \in ReqIds :
            (rows'[i] # rows[i] /\ rows'[i].status \in {"PENDING", "SCHEDULED"}) =>
                /\ rows[i] = NoRow
                /\ req[i].pc = "published" /\ req'[i].response = "202"
                /\ w' = w]_vars
    /\ [](rows[0] = NoRow)

\* The worker has overwritten the PENDING or SCHEDULED that ingest had set.
C35_Witness ==
    /\ w.pc = "committed" /\ w.updated
    /\ w.rowBefore.status \in {"PENDING", "SCHEDULED"}
    /\ rows[w.msg.id].status \in WorkerStatuses
    /\ rows[w.msg.id].status = w.final_status

\* C36: after any interleaving of add_sns_push_subscription transactions, the committed
\* table holds at most one row per (user_id, fcm_token) pair.
C36_OneRowPerUserToken ==
    \A r1 \in store.table, r2 \in store.table :
        (r1.user_id = r2.user_id /\ r1.fcm_token = r2.fcm_token) => r1 = r2

\* The message m with other status and send_at fields.
Relabelled(m) == {[m EXCEPT !.status = s, !.send_at = t] : s \in Statuses, t \in SendAts}

Held == {queue[i] : i \in 1..Len(queue)} \cup (IF w.msg = NoMsg THEN {} ELSE {w.msg})

RowOf(table, id) == {r \in table : r.id = id}

\* Connection s is in a call of add_sns_push_subscription that found a row.
Reregisters(s) == store.sess[s].op = "add" /\ store.sess[s].existing # NoSub

\* C39: add_sns_push_subscription on a (user_id, fcm_token) whose row is disabled leaves
\* that row enabled, and once the caller has committed the row is among those
\* get_sns_push_subscriptions_by_user_id returns for the user; a disabled row is never
\* among them, and a committed disabled row becomes enabled only by the commit of such
\* a call for that row.
C39_ReRegistrationEnables ==
    /\ [][\A s \in Sessions :
            LET ss == store.sess[s]
            IN (/\ ss.pc = "selected" /\ store'.sess[s].pc = "called"
                /\ \E r \in RowOf(View(s).table, ss.existing.id) : ~r.is_enabled)
               => \A r \in RowOf(store'.pend.table, ss.existing.id) :
                    /\ r.is_enabled
                    /\ r \in get_sns_push_subscriptions_by_user_id(store'.pend.table, r.user_id)]_vars
    /\ [][\A s \in Sessions :
            (Reregisters(s) /\ store.sess[s].pc = "called" /\ store'.sess[s].pc = "committed")
               => \A r \in RowOf(store'.table, store.sess[s].existing.id) :
                    r \in get_sns_push_subscriptions_by_user_id(store'.table, r.user_id)]_vars
    /\ [](\A r \in store.table :
            ~r.is_enabled => r \notin get_sns_push_subscriptions_by_user_id(store.table, r.user_id))
    /\ [][\A r \in store.table :
            (~r.is_enabled /\ \E r2 \in RowOf(store'.table, r.id) : r2.is_enabled)
               => \E s \in Sessions :
                    /\ Reregisters(s) /\ store.sess[s].existing.id = r.id
                    /\ store.sess[s].pc = "called" /\ store'.sess[s].pc = "committed"]_vars

\* The registered device was disabled, registered again, and the commit has made its
\* row one of the user's enabled subscriptions again.
C39_Witness ==
    \E s \in Sessions :
        LET ss == store.sess[s]
        IN /\ ss.pc = "committed" /\ Reregisters(s)
           /\ ~ss.existing.is_enabled
           /\ \E r \in get_sns_push_subscriptions_by_user_id(store.table, ss.user_id) :
                /\ r.id = ss.existing.id
                /\ r.fcm_token = ss.existing.fcm_token
                /\ r.updated_at = ss.now

====
